---- MODULE Spec2Model ----
(***************************************************************************)
(* Betflix: the bet lifecycle settlement engine of                         *)
(* packages/hardhat/contracts/Betflix.sol (the deployed variant with ENS   *)
(* trophy labels, lines 19-461), as a state machine.  One action per       *)
(* external function, enabled when the call goes through: a reverted call  *)
(* leaves every variable as it was.  The operators CreateBetErr,           *)
(* JoinBetCheck, ResolveBetErr and CancelBetErr give, for any state and    *)
(* any arguments, the revert reason such a call would end with.            *)
(***************************************************************************)
EXTENDS Integers, Sequences, FiniteSets, TLC

(***************************************************************************)
(* Program constants                                                       *)
(***************************************************************************)
MIN_BET == 100000000
MIN_DURATION == 60
MAX_DURATION == 3600
MAX_PRICE_AGE == 60
MIN_JOIN_DURATION == 60
MAX_JOIN_DURATION == 600
MAX_LABEL_LENGTH == 63
MAX_USD_PRICE == 100000000
MAX_EXPO == -2
MIN_EXPO == -18
SINGLE_UPDATE_FEE == 1
\* type(int64).max = 9223372036854775807, by its decimal digits (the checker's
\* integers are 32 bits wide).
INT64_MAX_DIGITS == <<9, 2, 2, 3, 3, 7, 2, 0, 3, 6, 8, 5, 4, 7, 7, 5, 8, 0, 7>>

(***************************************************************************)
(* Bounds of the model                                                     *)
(***************************************************************************)
MaxBets == 2
MaxTicks == 3

\* One block interval of the model: the shortest duration the engine accepts,
\* so that every deadline falls on a block time and each comparison of the
\* code (<=, <, >, >=) is exercised at equality.
TickStep == MIN_DURATION
MaxTime == MaxTicks * TickStep

(***************************************************************************)
(* Input domains                                                           *)
(***************************************************************************)
ZERO == "0x0"                                   \* address(0)
\* alice and carol place bets; bob is a keeper who only tries to settle the
\* bets of others.  carol is a contract account: its receive function may
\* refuse a payment.
Bettors == {"alice", "carol"}
Keepers == {"bob"}
Parties == Bettors \cup Keepers
Contracts == {"carol"}
\* Who calls resolveBet: a keeper with no stake in any bet, and a bettor.
Resolvers == Keepers \cup Contracts
Feeds == {"ETH/USD"}
LongLabel == "0123456789012345678901234567890123456789012345678901234567890123"
Labels == {"alpha", "beta"}
\* Durations of one and of three block intervals: with the join window of
\* one interval, a block lies strictly between the two deadlines.
Durations == {MIN_DURATION, 3 * MIN_DURATION}
\* block.prevrandao is one value per block; block.timestamp already tells
\* the blocks apart.
RandaoValues == {0}

\* Prices the oracle may sign, in its fixed-point format: exponent -2 is the
\* feed's usual one, -3 a changed decimal convention, -1 one outside the
\* band the conversion accepts.
Quote(p, e) == [price |-> p, expo |-> e]
CreateQuotes == {Quote(100, -2), Quote(0, -2), Quote(10, -1)}
ResolveQuotes == {Quote(99, -2), Quote(100, -2), Quote(101, -2), Quote(0, -2),
                  Quote(1000, -3)}

\* The arguments of a createBet call: those of the shipped client (one
\* update blob, stake plus fee as value, a fresh label), and each of them
\* with one argument out of range.
CreateArgs(value, quote, target, duration, joinDuration, label) ==
    [value |-> value, quote |-> quote, target |-> target, duration |-> duration,
     joinDuration |-> joinDuration, label |-> label]
ValidCreateArgs ==
    { CreateArgs(MIN_BET + SINGLE_UPDATE_FEE, Quote(100, -2), 1, d,
                 MIN_JOIN_DURATION, l) : d \in Durations, l \in Labels }
SomeValidCreateArgs ==
    CreateArgs(MIN_BET + SINGLE_UPDATE_FEE, Quote(100, -2), 1, MIN_DURATION,
               MIN_JOIN_DURATION, "alpha")
InvalidCreateArgs ==
    { [SomeValidCreateArgs EXCEPT !.value = v] : v \in {0, MIN_BET} }
    \cup { [SomeValidCreateArgs EXCEPT !.quote = q] : q \in CreateQuotes }
    \cup { [SomeValidCreateArgs EXCEPT !.target = t] : t \in {0, MAX_USD_PRICE + 1} }
    \cup { [SomeValidCreateArgs EXCEPT !.duration = d] :
              d \in {MIN_DURATION - 1, MAX_DURATION + 1} }
    \cup { [SomeValidCreateArgs EXCEPT !.joinDuration = d] :
              d \in {MIN_JOIN_DURATION - 1, MAX_JOIN_DURATION + 1,
                     2 * MIN_JOIN_DURATION} }
    \cup { [SomeValidCreateArgs EXCEPT !.label = l] : l \in {"", LongLabel} }
AllCreateArgs == ValidCreateArgs \cup InvalidCreateArgs

JoinValues == {MIN_BET, MIN_BET + 1}
\* The value sent with resolveBet: nothing, or the fee of one update blob (the
\* shipped client sends exactly the fee it expects).
ResolveValues == {0, SINGLE_UPDATE_FEE}
TrophyOutcomes == {"skipped", "assigned", "failed"}

VARIABLES
    bets,            \* mapping(bytes32 => Bet): the records written so far
    usedSubdomains,  \* mapping(bytes32 => bool): the labels marked in use
    balance,         \* address(this).balance
    pythBalance,     \* fees collected by the oracle contract
    pythStore,       \* the oracle's latest price per feed
    now,             \* block.timestamp
    prevrandao,      \* block.prevrandao
    paid,            \* per bet: the stake payments made out of escrow so far
    last,            \* the last call that went through, and what it did
    conversion,      \* a price conversion on its own: input, result, way back
    subgraph         \* the indexer's store: a Bet entity per bet, GlobalStats

vars == <<bets, usedSubdomains, balance, pythBalance, pythStore, now,
          prevrandao, paid, last, conversion, subgraph>>

(***************************************************************************)
(* Bet store                                                               *)
(***************************************************************************)
\* The zero-initialised struct a mapping returns for a key never written.
ZeroBet ==
    [player1 |-> ZERO, player2 |-> ZERO, amount |-> 0, targetPrice |-> 0,
     priceExponent |-> 0, deadline |-> 0, joinDeadline |-> 0, startPrice |-> 0,
     pythUpdateFee |-> 0, resolved |-> FALSE, cancelled |-> FALSE,
     winner |-> ZERO, priceFeedId |-> "", ensLabel |-> "", ensSubdomain |-> ""]

BetAt(id) == IF id \in DOMAIN bets THEN bets[id] ELSE ZeroBet

\* keccak256(abi.encodePacked(msg.sender, feed, target, timestamp, prevrandao)):
\* the packed encoding of fixed-width fields is injective and the hash is
\* taken as collision free, so the identifier is the tuple of its inputs.
BetId(sender, feed, target, timestamp, randao) ==
    <<sender, feed, target, timestamp, randao>>

\* An identifier no createBet can produce (its sender is address(0)).
NoBet == <<ZERO, "", 0, 0, 0>>

\* The lifecycle state the two flags and the joiner encode.
Status(b) ==
    IF b.player1 = ZERO THEN "None"
    ELSE IF b.cancelled THEN "Cancelled"
    ELSE IF b.resolved THEN "Resolved"
    ELSE IF b.player2 # ZERO THEN "Matched"
    ELSE "Open"

(***************************************************************************)
(* Price oracle (IPyth), as the engine uses it                             *)
(***************************************************************************)
\* The update blobs a caller may submit in the current block: none, or one
\* freshly signed price of the feed.
Update(feed, quote) ==
    <<[feed |-> feed, price |-> quote.price, expo |-> quote.expo, publishTime |-> now]>>
ResolveUpdateData ==
    {<<>>} \cup { Update(f, q) : f \in Feeds, q \in ResolveQuotes }

\* pyth.getUpdateFee: a fixed fee per update blob.
GetUpdateFee(data) == Len(data) * SINGLE_UPDATE_FEE

\* pyth.updatePriceFeeds: each update replaces the stored price of its feed
\* when it is newer than the stored one.
RECURSIVE UpdatePriceFeeds(_, _)
UpdatePriceFeeds(store, data) ==
    IF data = <<>> THEN store
    ELSE LET u == Head(data)
             p == [price |-> u.price, expo |-> u.expo, publishTime |-> u.publishTime]
             newer == u.feed \notin DOMAIN store
                        \/ store[u.feed].publishTime < u.publishTime
             next == IF newer
                     THEN [f \in DOMAIN store \cup {u.feed} |->
                              IF f = u.feed THEN p ELSE store[f]]
                     ELSE store
         IN UpdatePriceFeeds(next, Tail(data))

\* GetPriceNoOlderThan without the test of the age (pyth.getPriceUnsafe).
GetPriceNoOlderThan_NoAgeTest(store, feed, age) ==
    IF feed \notin DOMAIN store
    THEN [err |-> "PriceFeedNotFound", price |-> 0, expo |-> 0]
    ELSE [err |-> "ok", price |-> store[feed].price, expo |-> store[feed].expo]

\* pyth.getPriceNoOlderThan: the stored price, or a revert when the feed has
\* none or the stored one is older than `age`.
GetPriceNoOlderThan(store, feed, age) ==
    IF feed \notin DOMAIN store
    THEN [err |-> "PriceFeedNotFound", price |-> 0, expo |-> 0]
    ELSE IF now - store[feed].publishTime > age
    THEN [err |-> "StalePrice", price |-> 0, expo |-> 0]
    ELSE [err |-> "ok", price |-> store[feed].price, expo |-> store[feed].expo]

(***************************************************************************)
(* Price conversion                                                        *)
(***************************************************************************)
\* The number a sequence of decimal digits writes.
RECURSIVE DigitsValue(_)
DigitsValue(ds) ==
    IF ds = <<>> THEN 0
    ELSE 10 * DigitsValue(SubSeq(ds, 1, Len(ds) - 1)) + ds[Len(ds)]

\* SafeCast.toInt64 of usdPrice * 10^k: whether the product exceeds
\* type(int64).max, i.e. usdPrice > floor(type(int64).max / 10^k).  For
\* usdPrice <= MAX_USD_PRICE (nine digits) a quotient of ten digits or more
\* is never exceeded.
OverflowsInt64(usdPrice, k) ==
    LET n == Len(INT64_MAX_DIGITS) - k
    IN IF n > 9 THEN FALSE
       ELSE usdPrice > DigitsValue(SubSeq(INT64_MAX_DIGITS, 1, n))

\* The decimal digits of a natural number, and k zeros.
RECURSIVE Digits(_)
Digits(n) == IF n < 10 THEN <<n>> ELSE Append(Digits(n \div 10), n % 10)
Zeros(k) == [i \in 1..k |-> 0]

\* _convertToPythPrice: whole USD to the oracle's fixed point.  The product
\* usdPrice * 10 ** (-expo) is kept in decimal digits, as it may be as large
\* as type(int64).max.
ConvertToPythPrice(usdPrice, expo) ==
    IF usdPrice = 0 THEN [err |-> "PriceStale", digits |-> <<0>>]
    ELSE IF usdPrice > MAX_USD_PRICE THEN [err |-> "PriceStale", digits |-> <<0>>]
    ELSE IF expo > MAX_EXPO \/ expo < MIN_EXPO THEN [err |-> "PriceStale", digits |-> <<0>>]
    ELSE LET pythPrice == Digits(usdPrice) \o Zeros(-expo)
         IN IF OverflowsInt64(usdPrice, -expo)
            THEN [err |-> "SafeCastOverflowedIntDowncast", digits |-> <<0>>]
            ELSE [err |-> "ok", digits |-> pythPrice]

\* The division of getBetTargetPriceUSD: a fixed-point price, in decimal
\* digits, divided by 10 ** (-expo), which drops its last -expo digits.
ToDisplayFormat(digits, expo) ==
    LET n == Len(digits) - (-expo)
    IN IF n <= 0 THEN 0 ELSE DigitsValue(SubSeq(digits, 1, n))

\* A conversion that has not been asked for.
NoConversion ==
    [stage |-> "idle", usdPrice |-> 0, expo |-> 0, err |-> "ok",
     digits |-> <<0>>, usd |-> 0]

\* getBetTargetPriceUSD: the stored target back in whole USD.
GetBetTargetPriceUSD(id) ==
    LET bet == BetAt(id)
    IN IF bet.player1 = ZERO THEN 0
       ELSE ToDisplayFormat(Digits(bet.targetPrice), bet.priceExponent)

(***************************************************************************)
(* Value transfers                                                         *)
(***************************************************************************)
\* SendValue ignoring the outcome of the call.
SendValue_Unchecked(bal, to, amount, rejecting) ==
    IF bal < amount THEN "InsufficientBalance" ELSE "ok"

\* Address.sendValue(to, amount) out of a balance of `bal`, with `rejecting`
\* the accounts whose receive function refuses the payment.
SendValue(bal, to, amount, rejecting) ==
    IF bal < amount THEN "InsufficientBalance"
    ELSE IF to \in rejecting THEN "FailedCall"
    ELSE "ok"

\* One effect of a call: an external "call", a storage "write", a value
\* "transfer" to a payee or an "event"; `result` is "reverted" for an
\* external call that reverted inside a try, "ok" otherwise.
Step(kind, what) == [kind |-> kind, what |-> what, result |-> "ok"]

\* ReentrancyGuard without the lock.
NonReentrant_NoLock(entered) == "ok"

\* The nonReentrant modifier on entry, with `entered` the state of the lock.
NonReentrant(entered) ==
    IF entered THEN "ReentrancyGuardReentrantCall" ELSE "ok"

\* The functions that carry nonReentrant.
GuardedFunctions == {"createBet", "joinBet", "resolveBet", "cancelBet"}

\* What a payee gets when it calls back into the engine from the callback of
\* a transfer of a guarded function: the lock is held for the whole call.
NestedCalls == [fn \in GuardedFunctions |-> NonReentrant(TRUE)]

\* The record of a step that is no lifecycle call.
NoCall(op) ==
    [op |-> op, bet |-> <<ZERO, "", 0, 0, 0>>, caller |-> ZERO, value |-> 0,
     fee |-> 0, price |-> 0, transfers |-> <<>>, steps |-> <<>>, nested |-> <<>>,
     events |-> <<>>]

(***************************************************************************)
(* Events and the indexer (subgraph mapping)                               *)
(***************************************************************************)
\* The events of the engine, with the parameters of their emit statements.
BetCreatedEvent(id, bet) ==
    [name |-> "BetCreated", betId |-> id, creator |-> bet.player1,
     targetPrice |-> bet.targetPrice, amount |-> bet.amount,
     deadline |-> bet.deadline, joinDeadline |-> bet.joinDeadline,
     ensSubdomain |-> bet.ensSubdomain]
BetJoinedEvent(id, joiner) == [name |-> "BetJoined", betId |-> id, joiner |-> joiner]
BetResolvedEvent(id, winner, loser, finalPrice, payout, ensSubdomain) ==
    [name |-> "BetResolved", betId |-> id, winner |-> winner, loser |-> loser,
     finalPrice |-> finalPrice, payout |-> payout, ensSubdomain |-> ensSubdomain]
BetCancelledEvent(id, creator, refundAmount) ==
    [name |-> "BetCancelled", betId |-> id, creator |-> creator,
     refundAmount |-> refundAmount]

\* getOrCreateGlobalStats: the counters before the first event.
NewGlobalStats ==
    [totalBets |-> 0, totalActiveBets |-> 0, totalResolvedBets |-> 0,
     totalCancelledBets |-> 0, totalVolume |-> 0]
\* The indexer's store before the first event.
EmptySubgraph == [bets |-> [i \in {} |-> 0], stats |-> NewGlobalStats]

\* handleBetCreated: a new Bet entity, PENDING, and the counters.  Of the
\* entity, the fields set from the parameters the engine emits and the
\* status fields are kept (ZERO stands for null); User and DailyStats
\* entities, block times and transaction hashes are left out.
HandleBetCreated(g, e) ==
    LET bet == [creator |-> e.creator, joiner |-> ZERO, winner |-> ZERO,
                amount |-> e.amount, targetPrice |-> e.targetPrice,
                deadline |-> e.deadline, joinDeadline |-> e.joinDeadline,
                ensSubdomain |-> e.ensSubdomain, status |-> "PENDING",
                resolved |-> FALSE, cancelled |-> FALSE]
    IN [bets |-> [i \in DOMAIN g.bets \cup {e.betId} |->
                     IF i = e.betId THEN bet ELSE g.bets[i]],
        stats |-> [g.stats EXCEPT !.totalBets = @ + 1,
                                  !.totalActiveBets = @ + 1,
                                  !.totalVolume = @ + e.amount]]

\* HandleBetJoined counting the bet as active once more.
HandleBetJoined_CountsActive(g, e) ==
    IF e.betId \notin DOMAIN g.bets THEN g
    ELSE [bets |-> [g.bets EXCEPT ![e.betId].joiner = e.joiner,
                                  ![e.betId].status = "ACTIVE"],
          stats |-> [g.stats EXCEPT !.totalActiveBets = @ + 1,
                                    !.totalVolume = @ + g.bets[e.betId].amount]]

\* handleBetJoined: the joiner and status ACTIVE; nothing for an unknown bet.
HandleBetJoined(g, e) ==
    IF e.betId \notin DOMAIN g.bets THEN g
    ELSE [bets |-> [g.bets EXCEPT ![e.betId].joiner = e.joiner,
                                  ![e.betId].status = "ACTIVE"],
          stats |-> [g.stats EXCEPT !.totalVolume = @ + g.bets[e.betId].amount]]

\* handleBetResolved: status RESOLVED and the winner; one active bet less.
HandleBetResolved(g, e) ==
    IF e.betId \notin DOMAIN g.bets THEN g
    ELSE [bets |-> [g.bets EXCEPT ![e.betId].status = "RESOLVED",
                                  ![e.betId].resolved = TRUE,
                                  ![e.betId].winner = e.winner],
          stats |-> [g.stats EXCEPT !.totalActiveBets = @ - 1,
                                    !.totalResolvedBets = @ + 1]]

\* handleBetCancelled: status CANCELLED; one active bet less.
HandleBetCancelled(g, e) ==
    IF e.betId \notin DOMAIN g.bets THEN g
    ELSE [bets |-> [g.bets EXCEPT ![e.betId].status = "CANCELLED",
                                  ![e.betId].cancelled = TRUE],
          stats |-> [g.stats EXCEPT !.totalActiveBets = @ - 1,
                                    !.totalCancelledBets = @ + 1]]

\* The binding of the events to their handlers.
Handle(g, e) ==
    CASE e.name = "BetCreated" -> HandleBetCreated(g, e)
      [] e.name = "BetJoined" -> HandleBetJoined(g, e)
      [] e.name = "BetResolved" -> HandleBetResolved(g, e)
      [] e.name = "BetCancelled" -> HandleBetCancelled(g, e)
      [] OTHER -> g

\* The indexer's store once it has handled the events, in their order.
RECURSIVE Replay(_, _)
Replay(g, events) ==
    IF events = <<>> THEN g ELSE Replay(Handle(g, Head(events)), Tail(events))

(***************************************************************************)
(* createBet                                                               *)
(***************************************************************************)
\* _createBetWithENS: the record written for a new bet.
NewBet(caller, betAmount, targetPrice, currentPrice, duration, joinDuration, pythFee, feed, label) ==
    [player1 |-> caller, player2 |-> ZERO, amount |-> betAmount,
     targetPrice |-> targetPrice, priceExponent |-> currentPrice.expo,
     deadline |-> now + duration, joinDeadline |-> now + joinDuration,
     startPrice |-> currentPrice.price, pythUpdateFee |-> pythFee,
     resolved |-> FALSE, cancelled |-> FALSE, winner |-> ZERO,
     priceFeedId |-> feed, ensLabel |-> label, ensSubdomain |-> label]

\* CreateBetArgsCheck without the test of joinDuration against duration.
CreateBetArgsCheck_NoJoinOrderTest(value, pythFee, duration, joinDuration) ==
    IF value < pythFee THEN "Panic"
    ELSE IF value - pythFee < MIN_BET THEN "BetAmountTooLow"
    ELSE IF duration < MIN_DURATION \/ duration > MAX_DURATION THEN "BetDurationInvalid"
    ELSE IF joinDuration < MIN_JOIN_DURATION \/ joinDuration > MAX_JOIN_DURATION
         THEN "BetDurationInvalid"
    ELSE "ok"

\* The checks of createBet on its arguments alone, in the order of the code.
CreateBetArgsCheck(value, pythFee, duration, joinDuration) ==
    IF value < pythFee THEN "Panic"              \* checked msg.value - pythFee
    ELSE IF value - pythFee < MIN_BET THEN "BetAmountTooLow"
    ELSE IF duration < MIN_DURATION \/ duration > MAX_DURATION THEN "BetDurationInvalid"
    ELSE IF joinDuration < MIN_JOIN_DURATION \/ joinDuration > MAX_JOIN_DURATION
         THEN "BetDurationInvalid"
    ELSE IF joinDuration > duration THEN "BetDurationInvalid"
    ELSE IF value < (value - pythFee) + pythFee THEN "InsufficientPythFee"
    ELSE "ok"

\* LabelCheck without the test for a label in use.
LabelCheck_NoTakenTest(label) ==
    IF Len(label) = 0 THEN "InvalidENSSubdomain"
    ELSE IF Len(label) > MAX_LABEL_LENGTH THEN "InvalidENSSubdomain"
    ELSE "ok"

\* The checks of createBet on the trophy label.
LabelCheck(label) ==
    IF Len(label) = 0 THEN "InvalidENSSubdomain"
    ELSE IF Len(label) > MAX_LABEL_LENGTH THEN "InvalidENSSubdomain"
    ELSE IF label \in usedSubdomains THEN "ENSSubdomainTaken"
    ELSE "ok"

\* CreateBetErr without the test for an existing identifier.
CreateBetErr_NoExistsTest(caller, value, data, feed, target, duration, joinDuration, label) ==
    LET pythFee == GetUpdateFee(data)
        args == CreateBetArgsCheck(value, pythFee, duration, joinDuration)
        store == UpdatePriceFeeds(pythStore, data)
        currentPrice == GetPriceNoOlderThan(store, feed, MAX_PRICE_AGE)
        conv == ConvertToPythPrice(target, currentPrice.expo)
    IN IF args # "ok" THEN args
       ELSE IF currentPrice.err # "ok" THEN currentPrice.err
       ELSE IF currentPrice.price <= 0 THEN "PriceStale"
       ELSE IF conv.err # "ok" THEN conv.err
       ELSE LabelCheck(label)

\* createBet called in the current state: the revert reason, or "ok".
CreateBetErr(caller, value, data, feed, target, duration, joinDuration, label) ==
    LET pythFee == GetUpdateFee(data)
        args == CreateBetArgsCheck(value, pythFee, duration, joinDuration)
        store == UpdatePriceFeeds(pythStore, data)
        currentPrice == GetPriceNoOlderThan(store, feed, MAX_PRICE_AGE)
        conv == ConvertToPythPrice(target, currentPrice.expo)
        id == BetId(caller, feed, target, now, prevrandao)
    IN IF args # "ok" THEN args
       ELSE IF currentPrice.err # "ok" THEN currentPrice.err
       ELSE IF currentPrice.price <= 0 THEN "PriceStale"
       ELSE IF conv.err # "ok" THEN conv.err
       ELSE IF BetAt(id).player1 # ZERO THEN "BetAlreadyExists"
       ELSE LabelCheck(label)

\* What a createBet that goes through leaves behind: the identifier, the
\* record written and the oracle's store.
CreateBetResult(caller, value, data, feed, target, duration, joinDuration, label) ==
    LET pythFee == GetUpdateFee(data)
        betAmount == value - pythFee
        store == UpdatePriceFeeds(pythStore, data)
        currentPrice == GetPriceNoOlderThan(store, feed, MAX_PRICE_AGE)
        conv == ConvertToPythPrice(target, currentPrice.expo)
        id == BetId(caller, feed, target, now, prevrandao)
    IN [id |-> id, fee |-> pythFee, store |-> store, price |-> currentPrice.price,
        bet |-> NewBet(caller, betAmount, DigitsValue(conv.digits), currentPrice, duration,
                       joinDuration, pythFee, feed, label)]

\* The events a createBet that goes through emits.
CreateBetEvents(id, bet) == << BetCreatedEvent(id, bet) >>

\* The effects of a createBet that goes through, in the order of the code.
CreateBetSteps ==
    << Step("call", "pyth.getUpdateFee"), Step("call", "pyth.updatePriceFeeds"),
       Step("call", "pyth.getPriceNoOlderThan"), Step("write", "usedSubdomains"),
       Step("write", "bets"), Step("event", "BetCreated") >>

CreateBet(caller, value, data, feed, target, duration, joinDuration, label) ==
    LET r == CreateBetResult(caller, value, data, feed, target, duration,
                             joinDuration, label)
    IN /\ Cardinality(DOMAIN bets) < MaxBets
       /\ CreateBetErr(caller, value, data, feed, target, duration, joinDuration,
                       label) = "ok"
       /\ bets' = [i \in DOMAIN bets \cup {r.id} |->
                      IF i = r.id THEN r.bet ELSE bets[i]]
       /\ paid' = [i \in DOMAIN bets \cup {r.id} |->
                      IF i = r.id THEN <<>> ELSE paid[i]]
       /\ usedSubdomains' = usedSubdomains \cup {label}
       /\ balance' = balance + value - r.fee
       /\ pythBalance' = pythBalance + r.fee
       /\ pythStore' = r.store
       /\ last' = [op |-> "createBet", bet |-> r.id, caller |-> caller,
                   value |-> value, fee |-> r.fee, price |-> r.price,
                   transfers |-> <<>>, steps |-> CreateBetSteps, nested |-> <<>>,
                   events |-> CreateBetEvents(r.id, r.bet)]
       /\ subgraph' = Replay(subgraph, CreateBetEvents(r.id, r.bet))
       /\ UNCHANGED <<now, prevrandao, conversion>>

(***************************************************************************)
(* joinBet                                                                 *)
(***************************************************************************)
\* JoinBetCheck without the test against joinDeadline.
JoinBetCheck_NoJoinDeadlineTest(bet, value) ==
    IF bet.player1 = ZERO THEN "BetDoesNotExist"
    ELSE IF bet.cancelled THEN "BetAlreadyResolved"
    ELSE IF bet.resolved THEN "BetAlreadyResolved"
    ELSE IF bet.player2 # ZERO THEN "BetAlreadyJoined"
    ELSE IF now >= bet.deadline THEN "BetExpired"
    ELSE IF value # bet.amount THEN "BetAmountTooLow"
    ELSE "ok"

\* JoinBetCheck without the test against the deadline.
JoinBetCheck_NoDeadlineTest(bet, value) ==
    IF bet.player1 = ZERO THEN "BetDoesNotExist"
    ELSE IF bet.cancelled THEN "BetAlreadyResolved"
    ELSE IF bet.resolved THEN "BetAlreadyResolved"
    ELSE IF bet.player2 # ZERO THEN "BetAlreadyJoined"
    ELSE IF now > bet.joinDeadline THEN "BetExpired"
    ELSE IF value # bet.amount THEN "BetAmountTooLow"
    ELSE "ok"

\* JoinBetCheck without the test for a joiner.
JoinBetCheck_NoJoinedTest(bet, value) ==
    IF bet.player1 = ZERO THEN "BetDoesNotExist"
    ELSE IF bet.cancelled THEN "BetAlreadyResolved"
    ELSE IF bet.resolved THEN "BetAlreadyResolved"
    ELSE IF now > bet.joinDeadline THEN "BetExpired"
    ELSE IF now >= bet.deadline THEN "BetExpired"
    ELSE IF value # bet.amount THEN "BetAmountTooLow"
    ELSE "ok"

\* The checks of joinBet, in the order of the code.
JoinBetCheck(bet, value) ==
    IF bet.player1 = ZERO THEN "BetDoesNotExist"
    ELSE IF bet.cancelled THEN "BetAlreadyResolved"
    ELSE IF bet.resolved THEN "BetAlreadyResolved"
    ELSE IF bet.player2 # ZERO THEN "BetAlreadyJoined"
    ELSE IF now > bet.joinDeadline THEN "BetExpired"
    ELSE IF now >= bet.deadline THEN "BetExpired"
    ELSE IF value # bet.amount THEN "BetAmountTooLow"
    ELSE "ok"

\* Joined adding the joiner's stake to the recorded amount.
Joined_AddsStake(bet, caller) ==
    [bet EXCEPT !.player2 = caller, !.amount = 2 * bet.amount]

\* The record joinBet leaves.
Joined(bet, caller) == [bet EXCEPT !.player2 = caller]

\* The events a joinBet that goes through emits.
JoinBetEvents(id, caller) == << BetJoinedEvent(id, caller) >>

\* The effects of a joinBet that goes through, in the order of the code.
JoinBetSteps == << Step("write", "bets.player2"), Step("event", "BetJoined") >>

JoinBet(caller, id, value) ==
    LET bet == BetAt(id)
    IN /\ JoinBetCheck(bet, value) = "ok"
       /\ bets' = [bets EXCEPT ![id] = Joined(bet, caller)]
       /\ balance' = balance + value
       /\ last' = [op |-> "joinBet", bet |-> id, caller |-> caller,
                   value |-> value, fee |-> 0, price |-> 0, transfers |-> <<>>,
                   steps |-> JoinBetSteps, nested |-> <<>>,
                   events |-> JoinBetEvents(id, caller)]
       /\ subgraph' = Replay(subgraph, JoinBetEvents(id, caller))
       /\ UNCHANGED <<paid, usedSubdomains, pythBalance, pythStore, now, prevrandao, conversion>>

(***************************************************************************)
(* resolveBet                                                              *)
(***************************************************************************)
\* ResolveBetCheck without the test for a joiner.
ResolveBetCheck_NoMatchTest(bet) ==
    IF bet.player1 = ZERO THEN "BetDoesNotExist"
    ELSE IF bet.cancelled THEN "BetAlreadyResolved"
    ELSE IF now < bet.deadline THEN "BetNotExpired"
    ELSE IF bet.resolved THEN "BetAlreadyResolved"
    ELSE "ok"

\* ResolveBetCheck reporting a bet without joiner as the older variant does.
ResolveBetCheck_OlderVariant(bet) ==
    IF bet.player1 = ZERO THEN "BetDoesNotExist"
    ELSE IF bet.cancelled THEN "BetAlreadyResolved"
    ELSE IF bet.player2 = ZERO THEN "BetAlreadyJoined"
    ELSE IF now < bet.deadline THEN "BetNotExpired"
    ELSE IF bet.resolved THEN "BetAlreadyResolved"
    ELSE "ok"

\* The checks of resolveBet on the bet, in the order of the code.
ResolveBetCheck(bet) ==
    IF bet.player1 = ZERO THEN "BetDoesNotExist"
    ELSE IF bet.cancelled THEN "BetAlreadyResolved"
    ELSE IF bet.player2 = ZERO THEN "BetNotMatched"
    ELSE IF now < bet.deadline THEN "BetNotExpired"
    ELSE IF bet.resolved THEN "BetAlreadyResolved"
    ELSE "ok"

\* ResolvePriceCheck without the test of the fee.
ResolvePriceCheck_NoFeeTest(bet, value, pythFee, finalPrice) ==
    IF finalPrice.err # "ok" THEN finalPrice.err
    ELSE IF finalPrice.price <= 0 THEN "PriceStale"
    ELSE IF finalPrice.expo # bet.priceExponent THEN "PriceStale"
    ELSE "ok"

\* ResolvePriceCheck without the test of the exponent.
ResolvePriceCheck_NoExpoTest(bet, value, pythFee, finalPrice) ==
    IF value < pythFee THEN "InsufficientPythFee"
    ELSE IF finalPrice.err # "ok" THEN finalPrice.err
    ELSE IF finalPrice.price <= 0 THEN "PriceStale"
    ELSE "ok"

\* The checks of resolveBet on the fee and on the price the oracle returns.
ResolvePriceCheck(bet, value, pythFee, finalPrice) ==
    IF value < pythFee THEN "InsufficientPythFee"
    ELSE IF finalPrice.err # "ok" THEN finalPrice.err
    ELSE IF finalPrice.price <= 0 THEN "PriceStale"
    ELSE IF finalPrice.expo # bet.priceExponent THEN "PriceStale"
    ELSE "ok"

\* TargetHit with a strict comparison.
TargetHit_Strict(bet, price) == price > bet.targetPrice

\* player1 bets YES (price hits or exceeds the target), player2 bets NO.
TargetHit(bet, price) == price >= bet.targetPrice
Winner(bet, price) == IF TargetHit(bet, price) THEN bet.player1 ELSE bet.player2
Loser(bet, price) == IF TargetHit(bet, price) THEN bet.player2 ELSE bet.player1

\* TotalPot as the whole balance of the engine.
TotalPot_WholeBalance(bet) == balance
TotalPot(bet) == bet.amount * 2
\* WinnerPayout with the creation-time fee added.
WinnerPayout_WithCreationFee(bet) == TotalPot(bet) + bet.pythUpdateFee
\* What resolveBet sends the winner, and what it sends back to its caller.
WinnerPayout(bet) == TotalPot(bet)
ResolverRefund(pythFee) == pythFee

\* Resolved without setting the flag.
Resolved_FlagUnset(bet, winner) == [bet EXCEPT !.winner = winner]

\* The record resolveBet leaves.
Resolved(bet, winner) == [bet EXCEPT !.resolved = TRUE, !.winner = winner]

\* resolveBet called in the current state: the revert reason, or "ok".
\* `rejecting` are the accounts whose receive function refuses a payment
\* during this call.
ResolveBetErr(caller, id, value, data, rejecting) ==
    LET bet == BetAt(id)
        pre == ResolveBetCheck(bet)
        pythFee == GetUpdateFee(data)
        store == UpdatePriceFeeds(pythStore, data)
        finalPrice == GetPriceNoOlderThan(store, bet.priceFeedId, MAX_PRICE_AGE)
        chk == ResolvePriceCheck(bet, value, pythFee, finalPrice)
        bal1 == balance + value - pythFee
        pay1 == SendValue(bal1, Winner(bet, finalPrice.price), WinnerPayout(bet),
                          rejecting)
        bal2 == bal1 - WinnerPayout(bet)
        pay2 == SendValue(bal2, caller, ResolverRefund(pythFee), rejecting)
    IN IF pre # "ok" THEN pre
       ELSE IF chk # "ok" THEN chk
       ELSE IF pay1 # "ok" THEN pay1
       ELSE pay2

\* What a resolveBet that goes through does.  `trophy` is what becomes of
\* the label: "skipped" when the name wrapper is not configured, else
\* "assigned" or "failed" as setSubnodeRecord returns or reverts inside the
\* try; the settlement does not depend on it.
ResolveBetResult(caller, id, value, data, trophy) ==
    LET bet == BetAt(id)
        pythFee == GetUpdateFee(data)
        store == UpdatePriceFeeds(pythStore, data)
        finalPrice == GetPriceNoOlderThan(store, bet.priceFeedId, MAX_PRICE_AGE)
        payout == WinnerPayout(bet)
        refund == ResolverRefund(pythFee)
    IN [fee |-> pythFee, store |-> store, price |-> finalPrice.price,
        winner |-> Winner(bet, finalPrice.price),
        loser |-> Loser(bet, finalPrice.price),
        payout |-> payout, refund |-> refund,
        balance |-> balance + value - pythFee - payout - refund,
        trophy |-> trophy]

\* TrophyTransferErr letting a revert of the name wrapper through.
TrophyTransferErr_Propagates(trophy) ==
    IF trophy = "failed" THEN "FailedCall" ELSE "ok"

\* What the trophy transfer makes resolveBet revert with: nothing, the call
\* is skipped when the name wrapper is not configured and sits in a
\* try ... catch {} otherwise.
TrophyTransferErr(trophy) == "ok"

\* The trophy transfer among the effects of resolveBet.
TrophySteps(trophy) ==
    IF trophy = "skipped" THEN <<>>
    ELSE << [kind |-> "call", what |-> "nameWrapper.setSubnodeRecord",
             result |-> IF trophy = "failed" THEN "reverted" ELSE "ok"] >>

\* The effects of a resolveBet that goes through, in the order of the code.
ResolveBetSteps(trophy) ==
    << Step("call", "pyth.getUpdateFee"), Step("call", "pyth.updatePriceFeeds"),
       Step("call", "pyth.getPriceNoOlderThan"), Step("write", "bets.resolved"),
       Step("write", "bets.winner"), Step("transfer", "winner"),
       Step("transfer", "msg.sender") >>
    \o TrophySteps(trophy) \o << Step("event", "BetResolved") >>

\* The events a resolveBet that goes through emits.
ResolveBetEvents(id, bet, r) ==
    << BetResolvedEvent(id, r.winner, r.loser, r.price, TotalPot(bet),
                        bet.ensSubdomain) >>

ResolveBet(caller, id, value, data, rejecting, trophy) ==
    LET bet == BetAt(id)
        r == ResolveBetResult(caller, id, value, data, trophy)
    IN /\ ResolveBetErr(caller, id, value, data, rejecting) = "ok"
       /\ TrophyTransferErr(trophy) = "ok"
       /\ bets' = [bets EXCEPT ![id] = Resolved(bet, r.winner)]
       /\ paid' = [paid EXCEPT ![id] =
                      Append(@, [kind |-> "payout", to |-> r.winner,
                                 amount |-> r.payout])]
       /\ balance' = r.balance
       /\ pythBalance' = pythBalance + r.fee
       /\ pythStore' = r.store
       /\ last' = [op |-> "resolveBet", bet |-> id, caller |-> caller,
                   value |-> value, fee |-> r.fee, price |-> r.price,
                   transfers |-> <<[to |-> r.winner, amount |-> r.payout],
                                   [to |-> caller, amount |-> r.refund]>>,
                   steps |-> ResolveBetSteps(trophy), nested |-> NestedCalls,
                   events |-> ResolveBetEvents(id, bet, r)]
       /\ subgraph' = Replay(subgraph, ResolveBetEvents(id, bet, r))
       /\ UNCHANGED <<usedSubdomains, now, prevrandao, conversion>>

(***************************************************************************)
(* cancelBet                                                               *)
(***************************************************************************)
\* CancelBetCheck without the test for a joiner.
CancelBetCheck_NoJoinedTest(bet, caller) ==
    IF bet.player1 = ZERO THEN "BetDoesNotExist"
    ELSE IF bet.player1 # caller THEN "OnlyCreatorCanRefund"
    ELSE IF bet.cancelled THEN "BetAlreadyResolved"
    ELSE IF bet.resolved THEN "BetAlreadyResolved"
    ELSE IF now <= bet.joinDeadline THEN "BetNotExpired"
    ELSE "ok"

\* CancelBetCheck without the test of the cancelled flag.
CancelBetCheck_NoCancelledTest(bet, caller) ==
    IF bet.player1 = ZERO THEN "BetDoesNotExist"
    ELSE IF bet.player1 # caller THEN "OnlyCreatorCanRefund"
    ELSE IF bet.resolved THEN "BetAlreadyResolved"
    ELSE IF bet.player2 # ZERO THEN "BetAlreadyJoined"
    ELSE IF now <= bet.joinDeadline THEN "BetNotExpired"
    ELSE "ok"

\* CancelBetCheck letting the creator cancel at joinDeadline itself.
CancelBetCheck_AtJoinDeadline(bet, caller) ==
    IF bet.player1 = ZERO THEN "BetDoesNotExist"
    ELSE IF bet.player1 # caller THEN "OnlyCreatorCanRefund"
    ELSE IF bet.cancelled THEN "BetAlreadyResolved"
    ELSE IF bet.resolved THEN "BetAlreadyResolved"
    ELSE IF bet.player2 # ZERO THEN "BetAlreadyJoined"
    ELSE IF now < bet.joinDeadline THEN "BetNotExpired"
    ELSE "ok"

\* The checks of cancelBet, in the order of the code.
CancelBetCheck(bet, caller) ==
    IF bet.player1 = ZERO THEN "BetDoesNotExist"
    ELSE IF bet.player1 # caller THEN "OnlyCreatorCanRefund"
    ELSE IF bet.cancelled THEN "BetAlreadyResolved"
    ELSE IF bet.resolved THEN "BetAlreadyResolved"
    ELSE IF bet.player2 # ZERO THEN "BetAlreadyJoined"
    ELSE IF now <= bet.joinDeadline THEN "BetNotExpired"
    ELSE "ok"

\* RefundAmount with the creation-time fee added.
RefundAmount_WithCreationFee(bet) == bet.amount + bet.pythUpdateFee

\* Only the stake is refunded, not the creation-time oracle fee.
RefundAmount(bet) == bet.amount

\* LabelsAfterCancel keeping the label reserved.
LabelsAfterCancel_Kept(bet) == usedSubdomains

\* The labels in use once cancelBet has released the label of the bet.
LabelsAfterCancel(bet) == usedSubdomains \ {bet.ensLabel}

\* The record cancelBet leaves.
Cancelled(bet) == [bet EXCEPT !.cancelled = TRUE]

\* cancelBet called in the current state: the revert reason, or "ok".
CancelBetErr(caller, id, rejecting) ==
    LET bet == BetAt(id)
        pre == CancelBetCheck(bet, caller)
    IN IF pre # "ok" THEN pre
       ELSE SendValue(balance, caller, RefundAmount(bet), rejecting)

\* The effects of a cancelBet that goes through, in the order of the code.
CancelBetSteps ==
    << Step("write", "bets.cancelled"), Step("write", "usedSubdomains"),
       Step("transfer", "msg.sender"), Step("event", "BetCancelled") >>

\* The events a cancelBet that goes through emits.
CancelBetEvents(id, caller, refundAmount) ==
    << BetCancelledEvent(id, caller, refundAmount) >>

CancelBet(caller, id, rejecting) ==
    LET bet == BetAt(id)
        refundAmount == RefundAmount(bet)
    IN /\ CancelBetErr(caller, id, rejecting) = "ok"
       /\ bets' = [bets EXCEPT ![id] = Cancelled(bet)]
       /\ usedSubdomains' = LabelsAfterCancel(bet)
       /\ paid' = [paid EXCEPT ![id] =
                      Append(@, [kind |-> "refund", to |-> caller,
                                 amount |-> refundAmount])]
       /\ balance' = balance - refundAmount
       /\ last' = [op |-> "cancelBet", bet |-> id, caller |-> caller,
                   value |-> 0, fee |-> 0, price |-> 0,
                   transfers |-> <<[to |-> caller, amount |-> refundAmount]>>,
                   steps |-> CancelBetSteps, nested |-> NestedCalls,
                   events |-> CancelBetEvents(id, caller, refundAmount)]
       /\ subgraph' = Replay(subgraph, CancelBetEvents(id, caller, refundAmount))
       /\ UNCHANGED <<pythBalance, pythStore, now, prevrandao, conversion>>

(***************************************************************************)
(* Environment                                                             *)
(***************************************************************************)
\* A new block: the timestamp advances, prevrandao is the new block's.
Tick ==
    /\ now + TickStep <= MaxTime
    /\ now' = now + TickStep
    /\ prevrandao' \in RandaoValues
    /\ last' = NoCall("tick")
    /\ UNCHANGED <<bets, usedSubdomains, balance, pythBalance, pythStore, paid,
                   conversion, subgraph>>

\* The identifiers a caller may aim at: the bets of the store and one that
\* was never created.
BetIds == DOMAIN bets \cup {NoBet}

Init ==
    /\ bets = [i \in {} |-> ZeroBet]
    /\ paid = [i \in {} |-> <<>>]
    /\ usedSubdomains = {}
    /\ balance = 0
    /\ pythBalance = 0
    /\ pythStore = [f \in {} |-> [price |-> 0, expo |-> 0, publishTime |-> 0]]
    /\ now = 0
    /\ prevrandao \in RandaoValues
    /\ last = NoCall("constructor")
    /\ conversion = NoConversion
    /\ subgraph = EmptySubgraph

Next ==
    \/ \E caller \in Bettors, feed \in Feeds, a \in AllCreateArgs :
          CreateBet(caller, a.value, Update(feed, a.quote), feed, a.target,
                    a.duration, a.joinDuration, a.label)
    \/ \E caller \in Bettors, id \in BetIds, value \in JoinValues :
          JoinBet(caller, id, value)
    \/ \E id \in BetIds, data \in ResolveUpdateData :
          \E caller \in Resolvers, value \in ResolveValues,
             rejecting \in SUBSET Contracts, trophy \in TrophyOutcomes :
             ResolveBet(caller, id, value, data, rejecting, trophy)
    \/ \E caller \in Parties, id \in BetIds, rejecting \in SUBSET Contracts :
          CancelBet(caller, id, rejecting)
    \/ Tick

Spec == Init /\ [][Next]_vars

(***************************************************************************)
(* The price conversion on its own                                         *)
(***************************************************************************)
\* Whole-USD prices around the limits of _convertToPythPrice and of int64.
UsdPrices ==
    {0, 1, 9, 10, 92, 93, 50000, 92233720, 92233721, MAX_USD_PRICE - 1,
     MAX_USD_PRICE, MAX_USD_PRICE + 1}
\* Exponents in and around the accepted band.
Expos == {MIN_EXPO - 1, MIN_EXPO, -17, -11, -10, -8, -3, MAX_EXPO, MAX_EXPO + 1}

ConvInit ==
    /\ bets = [i \in {} |-> ZeroBet]
    /\ paid = [i \in {} |-> <<>>]
    /\ usedSubdomains = {}
    /\ balance = 0
    /\ pythBalance = 0
    /\ pythStore = [f \in {} |-> [price |-> 0, expo |-> 0, publishTime |-> 0]]
    /\ now = 0
    /\ prevrandao \in RandaoValues
    /\ last = NoCall("constructor")
    /\ subgraph = EmptySubgraph
    /\ \E x \in UsdPrices, e \in Expos :
          conversion = [NoConversion EXCEPT !.stage = "input", !.usdPrice = x, !.expo = e]

\* createBet's conversion of the target (line 197), on the input at hand.
ToOracleFormat ==
    /\ conversion.stage = "input"
    /\ LET r == ConvertToPythPrice(conversion.usdPrice, conversion.expo)
       IN conversion' = [conversion EXCEPT !.stage = "oracle", !.err = r.err, !.digits = r.digits]
    /\ UNCHANGED <<bets, usedSubdomains, balance, pythBalance, pythStore, now,
                   prevrandao, paid, last, subgraph>>

\* getBetTargetPriceUSD's conversion back, of a target that was stored.
ToDisplay ==
    /\ conversion.stage = "oracle"
    /\ conversion.err = "ok"
    /\ conversion' = [conversion EXCEPT !.stage = "display",
                            !.usd = ToDisplayFormat(conversion.digits, conversion.expo)]
    /\ UNCHANGED <<bets, usedSubdomains, balance, pythBalance, pythStore, now,
                   prevrandao, paid, last, subgraph>>

ConvNext == ToOracleFormat \/ ToDisplay

ConvSpec == ConvInit /\ [][ConvNext]_vars

(***************************************************************************)
(* Properties                                                              *)
(***************************************************************************)
Ids == DOMAIN bets
Terminal(st) == st \in {"Resolved", "Cancelled"}
\* The record under `id` after the step (the zero struct if it is gone).
BetAfter(id) == IF id \in DOMAIN bets' THEN bets'[id] ELSE ZeroBet

\* The status changes the lifecycle allows, each with the call that makes it.
AllowedTransition(from, to, op) ==
    \/ from = "None" /\ to = "Open" /\ op = "createBet"
    \/ from = "Open" /\ to = "Matched" /\ op = "joinBet"
    \/ from = "Open" /\ to = "Cancelled" /\ op = "cancelBet"
    \/ from = "Matched" /\ to = "Resolved" /\ op = "resolveBet"

\* C1: over any sequence of calls, the only status changes of a bet are
\* Open->Matched by joinBet, Open->Cancelled by cancelBet and
\* Matched->Resolved by resolveBet (and its creation by createBet).
C1_OnlyLifecycleTransitions ==
    [][\A id \in DOMAIN bets \cup DOMAIN bets' :
          Status(BetAt(id)) # Status(BetAfter(id))
            => /\ AllowedTransition(Status(BetAt(id)), Status(BetAfter(id)), last'.op)
               /\ last'.bet = id]_vars

\* Both terminal states have been reached, by two bets.
C1_Witness ==
    \E i \in Ids, j \in Ids :
        Status(bets[i]) = "Resolved" /\ Status(bets[j]) = "Cancelled"

\* No lifecycle call on the bet goes through, whoever calls with whatever
\* value, price update and payee behaviour.
NoCallGoesThrough(id) ==
    /\ \A v \in JoinValues : JoinBetCheck(BetAt(id), v) # "ok"
    /\ \A c \in Parties, v \in ResolveValues, d \in ResolveUpdateData,
          rej \in SUBSET Contracts : ResolveBetErr(c, id, v, d, rej) # "ok"
    /\ \A c \in Parties, rej \in SUBSET Contracts : CancelBetErr(c, id, rej) # "ok"

\* C2: once a bet is Resolved or Cancelled, every joinBet, resolveBet and
\* cancelBet on it fails, its record never changes again and is never deleted.
C2_TerminalIsFinal ==
    /\ [](\A id \in Ids : Terminal(Status(bets[id])) => NoCallGoesThrough(id))
    /\ [][\A id \in Ids : Terminal(Status(bets[id])) => BetAfter(id) = bets[id]]_vars

\* A bet was settled in an earlier block, and another bet's escrow is still
\* held (so that a repeated payment would not fail for lack of funds).
C2_Witness ==
    \E i \in Ids, j \in Ids :
        /\ Terminal(Status(bets[i])) /\ ~Terminal(Status(bets[j]))
        /\ last.op = "tick" /\ balance >= 2 * bets[i].amount

\* C3: each bet causes at most one outgoing stake payment: one payout of
\* 2 * stake to the winner when it is resolved, or one refund to the creator
\* when it is cancelled, never both and never twice.
C3_ExactlyOnceSettlement ==
    \A id \in Ids :
        LET b == bets[id]
        IN /\ Len(paid[id]) <= 1
           /\ Len(paid[id]) = 0 <=> ~Terminal(Status(b))
           /\ Len(paid[id]) = 1 =>
                \/ /\ Status(b) = "Resolved"
                   /\ paid[id][1] = [kind |-> "payout", to |-> b.winner,
                                     amount |-> 2 * b.amount]
                \/ /\ Status(b) = "Cancelled"
                   /\ paid[id][1].kind = "refund" /\ paid[id][1].to = b.player1

\* One bet has been paid out and another refunded.
C3_Witness ==
    \E i \in Ids, j \in Ids :
        /\ Len(paid[i]) = 1 /\ paid[i][1].kind = "payout"
        /\ Len(paid[j]) = 1 /\ paid[j][1].kind = "refund"

\* What the engine owes: the stake of every Open bet, twice the stake of
\* every Matched one.
RECURSIVE EscrowOf(_)
EscrowOf(ids) ==
    IF ids = {} THEN 0
    ELSE LET id == CHOOSE i \in ids : TRUE
             st == Status(bets[id])
             owed == IF st = "Open" THEN bets[id].amount
                     ELSE IF st = "Matched" THEN 2 * bets[id].amount
                     ELSE 0
         IN owed + EscrowOf(ids \ {id})

\* C4: solvency: the engine's balance is at least the stake of every Open bet
\* plus twice the stake of every Matched bet.
C4_Solvency == balance >= EscrowOf(Ids)

\* The price the oracle returns once it has ingested `data`.
PriceAfter(data, feed) ==
    GetPriceNoOlderThan(UpdatePriceFeeds(pythStore, data), feed, MAX_PRICE_AGE)

\* C5: resolution is always available: for a Matched bet at or after its
\* deadline, a resolveBet paying exactly the quoted fee, with the oracle
\* returning a fresh positive price of the stored exponent and payees that
\* accept payment, goes through.
C5_ResolutionAvailable ==
    \A id \in Ids, c \in Parties, d \in ResolveUpdateData :
        LET b == bets[id]
            q == PriceAfter(d, b.priceFeedId)
        IN (/\ Status(b) = "Matched" /\ now >= b.deadline
            /\ q.err = "ok" /\ q.price > 0 /\ q.expo = b.priceExponent)
           => ResolveBetErr(c, id, GetUpdateFee(d), d, {}) = "ok"

\* C6: on a successful resolveBet the winner is sent exactly 2 * stake (the
\* creation-time fee is not added) and the caller exactly the fee quoted for
\* this call, whatever it sent.
C6_ExactPayoutAndRefund ==
    last.op = "resolveBet" =>
        LET b == bets[last.bet]
        IN /\ last.value >= last.fee
           /\ last.transfers = <<[to |-> b.winner, amount |-> 2 * b.amount],
                                 [to |-> last.caller, amount |-> last.fee]>>

\* A keeper who is no party of the bet has resolved it, paying a fee.
C6_Witness ==
    /\ last.op = "resolveBet" /\ last.fee > 0
    /\ last.caller \notin {bets[last.bet].player1, bets[last.bet].player2}

RECURSIVE SumAmounts(_)
SumAmounts(ts) == IF ts = <<>> THEN 0 ELSE Head(ts).amount + SumAmounts(Tail(ts))

\* C7: payout conservation: what a resolution pays out (pot plus fee refund)
\* never exceeds what was paid in for the bet (both stakes, the creation fee
\* and the resolution fee).
C7_PayoutConservation ==
    last.op = "resolveBet" =>
        LET b == bets[last.bet]
        IN SumAmounts(last.transfers) <= 2 * b.amount + b.pythUpdateFee + last.fee

\* A resolution went through while the engine held another bet's escrow too.
C7_Witness ==
    /\ last.op = "resolveBet"
    /\ \E j \in Ids : j # last.bet /\ ~Terminal(Status(bets[j]))

\* C8: the winner is the creator if finalPrice >= targetPrice and the joiner
\* otherwise; for a fixed target the winner flips once as the final price
\* grows, and equality favours the creator.
C8_WinnerDetermination ==
    /\ last.op = "resolveBet" =>
          LET b == bets[last.bet]
          IN b.winner = IF last.price >= b.targetPrice THEN b.player1 ELSE b.player2
    /\ \A id \in Ids :
          LET b == bets[id]
              ps == {q.price : q \in ResolveQuotes}
          IN /\ Winner(b, b.targetPrice) = b.player1
             /\ \A p1 \in ps, p2 \in ps :
                   (p1 <= p2 /\ Winner(b, p1) = b.player1) => Winner(b, p2) = b.player1
             /\ \A p \in ps : p < b.targetPrice => Winner(b, p) = b.player2

\* A bet between two different parties was resolved at exactly its target.
C8_Witness ==
    /\ last.op = "resolveBet"
    /\ last.price = bets[last.bet].targetPrice
    /\ bets[last.bet].player1 # bets[last.bet].player2

\* What the specification requires of a joinBet.
JoinAllowed(id, v) ==
    /\ id \in Ids
    /\ Status(bets[id]) = "Open"
    /\ now <= bets[id].joinDeadline
    /\ now < bets[id].deadline
    /\ v = bets[id].amount

\* C9: joinBet goes through only if the bet exists, is Open, the time is at
\* most joinDeadline and before deadline and the value equals the stake; it
\* fails in every other case; and a join changes only the joiner.
C9_JoinPreconditions ==
    /\ [](\A id \in Ids \cup {NoBet}, v \in JoinValues \cup {0} :
              JoinBetCheck(BetAt(id), v) = "ok" <=> JoinAllowed(id, v))
    /\ [][last'.op = "joinBet" =>
              /\ JoinAllowed(last'.bet, last'.value)
              /\ bets' = [bets EXCEPT ![last'.bet].player2 = last'.caller]
              /\ balance' = balance + bets[last'.bet].amount]_vars

\* A bet was joined in the last block of its join window.
C9_Witness ==
    /\ last.op = "joinBet"
    /\ now = bets[last.bet].joinDeadline

C11_ResolveBeforeDeadline ==
    \A id \in Ids, c \in Parties, v \in ResolveValues, d \in ResolveUpdateData,
       rej \in SUBSET Contracts :
        (Status(bets[id]) \in {"Open", "Matched"} /\ now < bets[id].deadline)
           => ResolveBetErr(c, id, v, d, rej) = "BetNotExpired"

CancelAllowed(id, c) ==
    /\ id \in Ids
    /\ bets[id].player1 = c
    /\ Status(bets[id]) = "Open"
    /\ now > bets[id].joinDeadline

\* C13: cancelBet goes through only if the bet exists, the caller is its
\* creator, the bet is Open and the time is after joinDeadline; on a Matched,
\* Resolved or Cancelled bet, at or before joinDeadline, or from another
\* caller it fails.
C13_CancelPreconditions ==
    /\ [](\A id \in Ids \cup {NoBet}, c \in Parties :
              /\ CancelBetCheck(BetAt(id), c) = "ok" <=> CancelAllowed(id, c)
              /\ \A rej \in SUBSET Contracts :
                    CancelBetErr(c, id, rej) = "ok" => CancelAllowed(id, c))
    /\ [][last'.op = "cancelBet" => CancelAllowed(last'.bet, last'.caller)]_vars

\* A creator has cancelled while a Matched bet past its join window stays.
C13_Witness ==
    /\ last.op = "cancelBet"
    /\ \E j \in Ids : Status(bets[j]) = "Matched" /\ now > bets[j].joinDeadline

\* C14: a cancelBet that goes through sends the creator exactly the stake
\* (not the creation-time oracle fee), leaves the bet Cancelled and its
\* trophy label not in use.
C14_CancelEffect ==
    [][last'.op = "cancelBet" =>
          LET id == last'.bet
              b == bets[id]
          IN /\ last'.transfers = <<[to |-> b.player1, amount |-> b.amount]>>
             /\ balance' = balance - b.amount
             /\ Status(BetAfter(id)) = "Cancelled"
             /\ bets' = [bets EXCEPT ![id].cancelled = TRUE]
             /\ b.ensLabel \in usedSubdomains
             /\ usedSubdomains' = usedSubdomains \ {b.ensLabel}]_vars

\* A bet created with a non-zero oracle fee has been cancelled and refunded.
C14_Witness ==
    /\ last.op = "cancelBet"
    /\ bets[last.bet].cancelled /\ bets[last.bet].pythUpdateFee > 0
    /\ bets[last.bet].ensLabel \notin usedSubdomains

\* C15: cancellation is always available: for an Open bet whose joinDeadline
\* has passed, a cancelBet by its creator, who accepts the payment, goes
\* through, whatever was done on other bets.
C15_CancellationAvailable ==
    \A id \in Ids :
        (Status(bets[id]) = "Open" /\ now > bets[id].joinDeadline)
           => CancelBetErr(bets[id].player1, id, {}) = "ok"

\* A label no bet of the model ever asks for.
UnusedLabel == "gamma"
\* Some bet that is not cancelled holds the label.
LabelHeld(label) ==
    \E id \in Ids : bets[id].ensLabel = label /\ ~bets[id].cancelled

\* C16: label lifecycle: a createBet whose other preconditions are met fails
\* with ENSSubdomainTaken while a bet that is Open, Matched or Resolved holds
\* its label, and goes through when no bet holds it, in particular once the
\* holder has been cancelled; resolution never releases the label.
C16_LabelLifecycle ==
    \A label \in Labels, c \in Bettors, f \in Feeds, a \in ValidCreateArgs :
        LET err(l) == CreateBetErr(c, a.value, Update(f, a.quote), f, a.target,
                                   a.duration, a.joinDuration, l)
        IN err(UnusedLabel) = "ok" =>
              err(label) = IF LabelHeld(label) THEN "ENSSubdomainTaken" ELSE "ok"

\* The label of a cancelled bet has been given to a later bet, which has
\* been resolved and still holds it.
C16_Witness ==
    \E i \in Ids, j \in Ids :
        /\ bets[i].ensLabel = bets[j].ensLabel
        /\ bets[i].cancelled /\ bets[j].resolved
        /\ bets[j].ensLabel \in usedSubdomains

\* What became of the trophy transfer in a call with these effects.
TrophyOutcome(steps) ==
    LET at == {i \in 1..Len(steps) : steps[i].what = "nameWrapper.setSubnodeRecord"}
    IN IF at = {} THEN "skipped"
       ELSE IF \E i \in at : steps[i].result = "reverted" THEN "failed"
       ELSE "assigned"

Payees(c, id, d) ==
    {c, Winner(bets[id], PriceAfter(d, bets[id].priceFeedId).price)}

\* C18: if the payout to the winner or the fee refund to the resolver fails,
\* resolveBet reverts as a whole (the bet stays Matched without winner, no
\* funds move, no trophy call takes effect), and the same resolveBet goes
\* through later once the payees accept.
C18_PayoutFailureAborts ==
    \A id \in Ids, c \in Parties, v \in ResolveValues, d \in ResolveUpdateData,
       rej \in SUBSET Contracts :
        /\ (ResolveBetErr(c, id, v, d, {}) = "ok" /\ Payees(c, id, d) \cap rej # {})
              => /\ ResolveBetErr(c, id, v, d, rej) = "FailedCall"
                 /\ Status(bets[id]) = "Matched" /\ bets[id].winner = ZERO
        /\ ResolveBetErr(c, id, v, d, rej) = "ok" => Payees(c, id, d) \cap rej = {}

\* A Matched bet at its deadline whose winner would be the contract account:
\* resolveBet reverts while that account refuses payment and goes through
\* once it accepts.
C18_Witness ==
    \E id \in Ids, c \in Keepers, v \in ResolveValues, d \in ResolveUpdateData :
        /\ Payees(c, id, d) \cap Contracts # {}
        /\ ResolveBetErr(c, id, v, d, Contracts) = "FailedCall"
        /\ ResolveBetErr(c, id, v, d, {}) = "ok"

\* C19: in createBet, resolveBet and cancelBet the bet's record is written
\* before the call transfers any value and before it calls any external
\* collaborator (price oracle, trophy issuer, payee).
C19_WriteBeforeExternal ==
    last.op \in {"createBet", "resolveBet", "cancelBet"} =>
        \A i \in 1..Len(last.steps), j \in 1..Len(last.steps) :
            (last.steps[i].kind = "write" /\ last.steps[j].kind \in {"call", "transfer"})
               => i < j

FreshAfter(feed) ==
    /\ feed \in DOMAIN pythStore'
    /\ now - pythStore'[feed].publishTime <= MAX_PRICE_AGE

\* The preconditions of the call that the step records, on the state it
\* started from.
PreconditionsHeld ==
    LET id == last'.bet
        b == BetAfter(id)
    IN CASE last'.op = "createBet" ->
              /\ id \notin Ids
              /\ b.ensLabel \notin usedSubdomains
              /\ Len(b.ensLabel) \in 1..MAX_LABEL_LENGTH
              /\ FreshAfter(b.priceFeedId) /\ last'.price > 0
              /\ last'.value >= last'.fee + MIN_BET
         [] last'.op = "joinBet" -> JoinAllowed(id, last'.value)
         [] last'.op = "resolveBet" ->
              /\ Status(BetAt(id)) = "Matched" /\ now >= BetAt(id).deadline
              /\ last'.value >= last'.fee
              /\ FreshAfter(b.priceFeedId) /\ last'.price > 0
              /\ pythStore'[b.priceFeedId].expo = b.priceExponent
         [] last'.op = "cancelBet" -> CancelAllowed(id, last'.caller)
         [] OTHER -> FALSE

\* C21: atomicity: a createBet, joinBet, resolveBet or cancelBet that fails
\* on a precondition leaves the bet store, the label table and all balances
\* as they were: every step that changes one of them is a call all of whose
\* preconditions held.
C21_Atomicity ==
    [][<<bets, usedSubdomains, balance, pythBalance, pythStore, paid>>'
          # <<bets, usedSubdomains, balance, pythBalance, pythStore, paid>>
          => PreconditionsHeld]_vars

\* A state where calls fail on preconditions: a createBet on a taken label
\* and a resolveBet against a price of another exponent.
C21_Witness ==
    /\ \E c \in Bettors, f \in Feeds, a \in ValidCreateArgs :
          CreateBetErr(c, a.value, Update(f, a.quote), f, a.target, a.duration,
                       a.joinDuration, a.label) = "ENSSubdomainTaken"
    /\ \E id \in Ids, c \in Resolvers :
          /\ Status(bets[id]) = "Matched"
          /\ ResolveBetErr(c, id, SINGLE_UPDATE_FEE,
                           Update(bets[id].priceFeedId, Quote(1000, -3)), {}) = "PriceStale"
    /\ last.op = "tick"

\* C22: createBet never overwrites a bet: when the derived identifier is in
\* the store the call fails with BetAlreadyExists; a createBet that goes
\* through adds one identifier that was not in the store and leaves every
\* other record as it was, and nothing else adds an identifier.
C22_NoOverwrite ==
    /\ [](\A c \in Bettors, f \in Feeds, a \in ValidCreateArgs :
              BetId(c, f, a.target, now, prevrandao) \in Ids
                 => CreateBetErr(c, a.value, Update(f, a.quote), f, a.target,
                                 a.duration, a.joinDuration, a.label) = "BetAlreadyExists")
    /\ [][/\ last'.op = "createBet" =>
                /\ last'.bet \notin Ids
                /\ DOMAIN bets' = Ids \cup {last'.bet}
                /\ \A id \in Ids : bets'[id] = bets[id]
          /\ DOMAIN bets' # Ids => last'.op = "createBet"]_vars

\* A creator who has a bet from this block asks for a second one on the
\* same feed and target under a label that is free.
C22_Witness ==
    \E c \in Bettors, f \in Feeds, a \in ValidCreateArgs :
        /\ a.label \notin usedSubdomains
        /\ CreateBetErr(c, a.value, Update(f, a.quote), f, a.target, a.duration,
                        a.joinDuration, a.label) = "BetAlreadyExists"

\* The oracle's answer cannot settle the bet: no price within the staleness
\* bound, a price that is not positive, or another exponent than the stored.
Unusable(q, bet) ==
    q.err # "ok" \/ q.price <= 0 \/ q.expo # bet.priceExponent

\* C23: resolveBet fails, leaving the bet Matched and the funds in place,
\* whenever the oracle has no price within the staleness bound, the price is
\* not positive or its exponent differs from the stored priceExponent; no
\* bet is settled against a price of another exponent.
C23_UnusablePriceFails ==
    /\ \A id \in Ids, c \in Parties, v \in ResolveValues, d \in ResolveUpdateData,
          rej \in SUBSET Contracts :
           Unusable(PriceAfter(d, bets[id].priceFeedId), bets[id])
              => ResolveBetErr(c, id, v, d, rej) # "ok"
    /\ last.op = "resolveBet" =>
          LET b == bets[last.bet]
              q == GetPriceNoOlderThan(pythStore, b.priceFeedId, MAX_PRICE_AGE)
          IN /\ ~Unusable(q, b)
             /\ q.price = last.price

\* A Matched bet past its deadline with a stale oracle: a resolveBet that
\* brings a fresh price of the stored exponent would go through, one that
\* brings none, a zero price or another exponent fails.
C23_Witness ==
    \E id \in Ids, c \in Keepers :
        LET f == bets[id].priceFeedId
        IN /\ Status(bets[id]) = "Matched"
           /\ ResolveBetErr(c, id, SINGLE_UPDATE_FEE, Update(f, Quote(100, -2)), {}) = "ok"
           /\ ResolveBetErr(c, id, 0, <<>>, {}) = "StalePrice"
           /\ ResolveBetErr(c, id, SINGLE_UPDATE_FEE, Update(f, Quote(0, -2)), {}) = "PriceStale"
           /\ ResolveBetErr(c, id, SINGLE_UPDATE_FEE, Update(f, Quote(1000, -3)), {}) = "PriceStale"

\* C24: every usdPrice in 1..MAX_USD_PRICE converts under every exponent in
\* MIN_EXPO..MAX_EXPO and converts back to itself; a zero price, one above the
\* ceiling or an exponent outside the band fails with the price-format error
\* (PriceStale in this contract).
InRange(x, e) == x \in 1..MAX_USD_PRICE /\ e \in MIN_EXPO..MAX_EXPO
C24_ConversionRoundTrips ==
    /\ conversion.stage \in {"oracle", "display"} =>
          IF InRange(conversion.usdPrice, conversion.expo)
          THEN conversion.err = "ok"
          ELSE conversion.err = "PriceStale"
    /\ conversion.stage = "display" => conversion.usd = conversion.usdPrice
\* What does hold: a conversion that goes through converts back to its input,
\* and an input outside the ranges fails with PriceStale.
C24_RoundTripWhenConverted ==
    /\ conversion.stage = "display" => conversion.usd = conversion.usdPrice
    /\ conversion.stage = "oracle" /\ ~InRange(conversion.usdPrice, conversion.expo) =>
          conversion.err = "PriceStale"
\* An in-range input whose product does not fit type(int64).max.
C24_Overflow ==
    /\ conversion.stage = "oracle"
    /\ InRange(conversion.usdPrice, conversion.expo)
    /\ conversion.err = "SafeCastOverflowedIntDowncast"

\* The errors createBet reports, in the current state, for the calls of `args`.
CreateErrors(args) ==
    { CreateBetErr(c, a.value, Update(f, a.quote), f, a.target, a.duration,
                   a.joinDuration, a.label) :
         c \in Bettors, f \in Feeds, a \in args } \ {"ok"}
\* Calls whose only fault is the format of the target: zero, above the
\* ceiling, or a feed exponent outside the band.
BadFormatArgs ==
    { [SomeValidCreateArgs EXCEPT !.target = t] : t \in {0, MAX_USD_PRICE + 1} }
    \cup {[SomeValidCreateArgs EXCEPT !.quote = Quote(10, MAX_EXPO + 1)]}
\* Calls whose only fault is the oracle's price: none that is positive.
BadOracleArgs == {[SomeValidCreateArgs EXCEPT !.quote = Quote(0, -2)]}
\* Calls whose only fault is a stake under MIN_BET.
LowStakeArgs == {[SomeValidCreateArgs EXCEPT !.value = MIN_BET]}
\* The errors joinBet reports for a stake other than the bet's, on the bets
\* that can be joined.
StakeMismatchErrors ==
    { JoinBetCheck(bets[id], bets[id].amount + 1) :
         id \in {i \in Ids : JoinBetCheck(bets[i], bets[i].amount) = "ok"} }
\* The errors the three operations report on the bets of status `st`.
ErrorsOn(st) ==
    LET ids == {i \in Ids : Status(bets[i]) = st}
    IN { JoinBetCheck(bets[i], bets[i].amount) : i \in ids }
       \cup { ResolveBetCheck(bets[i]) : i \in ids }
       \cup { CancelBetCheck(bets[i], bets[i].player1) : i \in ids }

\* C25: failures of different kinds are reported by different errors: a
\* target of bad format differs from an unavailable oracle price, a stake
\* mismatch on join from a low stake on create, and an operation on a
\* Cancelled bet from one on a Resolved bet.
C25_KindsDistinguishable ==
    /\ CreateErrors(BadFormatArgs) \cap CreateErrors(BadOracleArgs) = {}
    /\ StakeMismatchErrors \cap CreateErrors(LowStakeArgs) = {}
    /\ ErrorsOn("Cancelled") \cap ErrorsOn("Resolved") = {}
\* The three parts, each on its own.
C25_FormatVersusOracle ==
    CreateErrors(BadFormatArgs) \cap CreateErrors(BadOracleArgs) = {}
C25_MismatchVersusLowStake ==
    StakeMismatchErrors \cap CreateErrors(LowStakeArgs) = {}
C25_CancelledVersusResolved ==
    ErrorsOn("Cancelled") \cap ErrorsOn("Resolved") = {}

\* The time a bet was created at: block.timestamp is part of its identifier.
CreationTime(id) == id[4]
\* Arguments of createBet outside the bounds on stake and durations.
OutOfBounds(a) ==
    \/ a.value - SINGLE_UPDATE_FEE < MIN_BET
    \/ a.duration \notin MIN_DURATION..MAX_DURATION
    \/ a.joinDuration \notin MIN_JOIN_DURATION..MAX_JOIN_DURATION
    \/ a.joinDuration > a.duration

Holders(label) == {id \in Ids : bets[id].ensLabel = label /\ ~bets[id].cancelled}
\* The labels that are marked or that some bet carries, and one that is neither.
KnownLabels ==
    Labels \cup {UnusedLabel} \cup usedSubdomains \cup {bets[id].ensLabel : id \in Ids}

\* C27: a label is marked in use if and only if exactly one bet that is not
\* cancelled carries it; no two such bets share a label, and a cancellation
\* leaves the labels of all other bets marked.
C27_LabelReservation ==
    /\ \A label \in KnownLabels :
          /\ label \in usedSubdomains <=> Cardinality(Holders(label)) = 1
          /\ Cardinality(Holders(label)) <= 1
    /\ last.op = "cancelBet" =>
          \A id \in Ids \ {last.bet} :
             ~bets[id].cancelled => bets[id].ensLabel \in usedSubdomains
\* A cancellation has just released the label of its bet while another bet,
\* not cancelled, keeps its own label marked.
C27_Witness ==
    /\ last.op = "cancelBet"
    /\ bets[last.bet].ensLabel \notin usedSubdomains
    /\ \E id \in Ids \ {last.bet} :
          ~bets[id].cancelled /\ bets[id].ensLabel \in usedSubdomains

\* C28: a createBet that meets the stated preconditions (stake, durations,
\* fresh positive price, convertible target, valid label that is not in use)
\* goes through under an identifier no bet has yet, also when its creator
\* has already created a bet on the same feed and target in this block.
C28_ValidCreateSucceeds ==
    \A c \in Bettors, f \in Feeds, a \in ValidCreateArgs :
        a.label \notin usedSubdomains =>
           /\ CreateBetErr(c, a.value, Update(f, a.quote), f, a.target,
                           a.duration, a.joinDuration, a.label) = "ok"
           /\ BetId(c, f, a.target, now, prevrandao) \notin Ids
\* What does hold: such a call is refused only for an identifier in use.
C28_RefusedOnlyForIdentifier ==
    \A c \in Bettors, f \in Feeds, a \in ValidCreateArgs :
        a.label \notin usedSubdomains =>
           CreateBetErr(c, a.value, Update(f, a.quote), f, a.target,
                        a.duration, a.joinDuration, a.label)
              = IF BetId(c, f, a.target, now, prevrandao) \in Ids
                THEN "BetAlreadyExists" ELSE "ok"

\* C29: for every bet of every reachable state, (a) resolved and cancelled
\* are never both set, (b) the winner is set if and only if the bet is
\* resolved, and is then the creator or the joiner, (c) a cancelled bet has
\* no joiner, (d) a resolved bet has one.
C29_RecordConsistency ==
    \A id \in Ids :
        LET b == bets[id]
        IN /\ ~(b.resolved /\ b.cancelled)
           /\ b.winner # ZERO <=> b.resolved
           /\ b.resolved => b.winner \in {b.player1, b.player2}
           /\ b.cancelled => b.player2 = ZERO
           /\ b.resolved => b.player2 # ZERO
\* The store holds a resolved bet, won by its joiner, next to a cancelled one.
C29_Witness ==
    \E i, j \in Ids :
        /\ bets[i].resolved /\ bets[i].winner = bets[i].player2
        /\ bets[j].cancelled /\ bets[j].winner = ZERO

\* Some call of the operation on the bet goes through in the current state.
CanJoin(id) == \E v \in JoinValues : JoinBetCheck(bets[id], v) = "ok"
CanCancel(id) ==
    \E c \in Parties, rej \in SUBSET Contracts : CancelBetErr(c, id, rej) = "ok"
CanResolve(id) ==
    \E c \in Resolvers, v \in ResolveValues, d \in ResolveUpdateData,
       rej \in SUBSET Contracts : ResolveBetErr(c, id, v, d, rej) = "ok"

\* C30: at any time and for any bet at most one of joinBet, cancelBet and
\* resolveBet can go through: join only on an Open bet at a time that is at
\* most joinDeadline and before deadline, cancel only on an Open bet after
\* joinDeadline, resolve only on a Matched bet at or after deadline.  Hence an
\* Open bet past its joinDeadline never becomes Matched, and a bet is joined
\* strictly before the time it can be resolved at.
C30_OneOperationAtATime ==
    /\ [](\A id \in Ids :
            LET b == bets[id]
            IN /\ CanJoin(id) => /\ Status(b) = "Open"
                                 /\ now <= b.joinDeadline /\ now < b.deadline
               /\ CanCancel(id) => Status(b) = "Open" /\ now > b.joinDeadline
               /\ CanResolve(id) => Status(b) = "Matched" /\ now >= b.deadline
               /\ ~(CanJoin(id) /\ CanCancel(id))
               /\ ~(CanJoin(id) /\ CanResolve(id))
               /\ ~(CanCancel(id) /\ CanResolve(id)))
    /\ [][/\ \A id \in Ids :
               (Status(bets[id]) = "Open" /\ now > bets[id].joinDeadline)
                  => Status(BetAfter(id)) # "Matched"
          /\ last'.op = "joinBet" => now < bets[last'.bet].deadline]_vars
\* An Open bet past its joinDeadline that can be cancelled and no longer
\* joined, next to a Matched bet at its deadline that can be resolved.
C30_Witness ==
    \E i, j \in Ids :
        /\ Status(bets[i]) = "Open" /\ now > bets[i].joinDeadline
        /\ now < bets[i].deadline
        /\ CanCancel(i) /\ ~CanJoin(i)
        /\ Status(bets[j]) = "Matched" /\ CanResolve(j)

\* The fields of a record that are written at creation only.
CreationFields(b) ==
    <<b.player1, b.amount, b.targetPrice, b.priceExponent, b.startPrice,
      b.pythUpdateFee, b.deadline, b.joinDeadline, b.priceFeedId, b.ensLabel,
      b.ensSubdomain>>

\* C31: the fields written at creation never change afterwards; joinBet
\* changes only its bet's joiner, resolveBet only its bet's resolved flag and
\* winner, cancelBet only its bet's cancelled flag and the reservation of that
\* bet's label; no call changes a field of another bet.
C31_Frame ==
    [][/\ \A id \in Ids :
             /\ id \in DOMAIN bets'
             /\ CreationFields(bets'[id]) = CreationFields(bets[id])
             /\ id # last'.bet => bets'[id] = bets[id]
       /\ last'.op = "createBet" =>
             /\ DOMAIN bets' = Ids \cup {last'.bet} /\ last'.bet \notin Ids
       /\ last'.op = "joinBet" =>
             /\ bets' = [bets EXCEPT ![last'.bet].player2 = last'.caller]
             /\ usedSubdomains' = usedSubdomains
       /\ last'.op = "resolveBet" =>
             /\ bets' = [bets EXCEPT ![last'.bet].resolved = TRUE,
                                     ![last'.bet].winner = bets'[last'.bet].winner]
             /\ usedSubdomains' = usedSubdomains
       /\ last'.op = "cancelBet" =>
             /\ bets' = [bets EXCEPT ![last'.bet].cancelled = TRUE]
             /\ usedSubdomains' = usedSubdomains \ {bets[last'.bet].ensLabel}
       /\ last'.op = "tick" => bets' = bets /\ usedSubdomains' = usedSubdomains]_vars
\* A bet has just been joined while the store holds another bet, which a
\* wrong write could have touched.
C31_Witness ==
    /\ last.op = "joinBet"
    /\ bets[last.bet].player2 = last.caller
    /\ \E id \in Ids \ {last.bet} : Status(bets[id]) \in {"Open", "Matched", "Resolved"}

\* C32: the joiner of a bet is a party other than its creator: no bet of the
\* store has its creator on both sides, and no joinBet by the creator goes
\* through.
C32_JoinerIsNotCreator ==
    /\ \A id \in Ids : bets[id].player2 # bets[id].player1
    /\ last.op = "joinBet" => last.caller # bets[last.bet].player1
\* What does hold: the joiner is whoever made the joinBet call, the creator
\* included.
C32_JoinerIsCaller ==
    last.op = "joinBet" => bets[last.bet].player2 = last.caller
\* A resolved bet whose creator held both sides and took the pot.
C32_SelfMatched ==
    \E id \in Ids :
        /\ bets[id].player2 = bets[id].player1
        /\ bets[id].resolved /\ bets[id].winner = bets[id].player1

\* Whether the number written by the digits `a` is at most the one written
\* by `b` (neither with leading zeros).
RECURSIVE DigitsLeq(_, _)
DigitsLeq(a, b) ==
    IF Len(a) # Len(b) THEN Len(a) < Len(b)
    ELSE IF a = <<>> THEN TRUE
    ELSE IF Head(a) # Head(b) THEN Head(a) < Head(b)
    ELSE DigitsLeq(Tail(a), Tail(b))
\* The product usdPrice * 10 ** (-expo), in decimal digits.
Product(usdPrice, expo) == Digits(usdPrice) \o Zeros(-expo)

\* C33: for every accepted input (1 <= usdPrice <= MAX_USD_PRICE and
\* MIN_EXPO <= expo <= MAX_EXPO) the product usdPrice * 10 ** (-expo) is at
\* most type(int64).max, and the conversion returns exactly that product.
C33_ProductFitsInt64 ==
    (conversion.stage \in {"oracle", "display"}
       /\ InRange(conversion.usdPrice, conversion.expo)) =>
          /\ DigitsLeq(Product(conversion.usdPrice, conversion.expo), INT64_MAX_DIGITS)
          /\ conversion.err = "ok"
          /\ conversion.digits = Product(conversion.usdPrice, conversion.expo)
\* What does hold: the conversion returns the exact product when that is at
\* most type(int64).max, and fails in SafeCast otherwise.
C33_ExactWhenItFits ==
    (conversion.stage \in {"oracle", "display"}
       /\ InRange(conversion.usdPrice, conversion.expo)) =>
          IF DigitsLeq(Product(conversion.usdPrice, conversion.expo), INT64_MAX_DIGITS)
          THEN /\ conversion.err = "ok"
               /\ conversion.digits = Product(conversion.usdPrice, conversion.expo)
          ELSE conversion.err = "SafeCastOverflowedIntDowncast"

\* An update blob whose price was signed `age` seconds ago.
AgedUpdate(feed, quote, age) ==
    <<[feed |-> feed, price |-> quote.price, expo |-> quote.expo,
       publishTime |-> now - age]>>
\* The update data a call may bring: none, a price signed in this block, one
\* signed exactly MAX_PRICE_AGE ago and one signed a second earlier.
AgedData(feed) ==
    {<<>>} \cup { AgedUpdate(feed, Quote(100, -2), age) :
                    age \in {0, MAX_PRICE_AGE, MAX_PRICE_AGE + 1} }
\* The store, once it has ingested `data`, holds a price of the feed that
\* was published at most MAX_PRICE_AGE ago.
HoldsFresh(store, feed) ==
    /\ feed \in DOMAIN store
    /\ store[feed].publishTime >= now - MAX_PRICE_AGE

\* C34: createBet and resolveBet accept a price only if it was published at
\* most MAX_PRICE_AGE before the call, the same bound in both; they fail when
\* the oracle holds no such price after ingesting the update data; and the
\* price a bet was settled at was published at or after deadline -
\* MAX_PRICE_AGE.
C34_PriceFreshness ==
    /\ \A c \in Bettors, f \in Feeds, a \in ValidCreateArgs : \A d \in AgedData(f) :
          CreateBetErr(c, a.value, d, f, a.target, a.duration, a.joinDuration,
                       a.label) = "ok"
             => HoldsFresh(UpdatePriceFeeds(pythStore, d), f)
    /\ \A id \in Ids, c \in Resolvers, v \in ResolveValues :
          \A d \in AgedData(bets[id].priceFeedId) :
          ResolveBetErr(c, id, v, d, {}) = "ok"
             => HoldsFresh(UpdatePriceFeeds(pythStore, d), bets[id].priceFeedId)
    /\ last.op \in {"createBet", "resolveBet"} =>
          /\ HoldsFresh(pythStore, bets[last.bet].priceFeedId)
          /\ pythStore[bets[last.bet].priceFeedId].price = last.price
    /\ last.op = "resolveBet" =>
          pythStore[bets[last.bet].priceFeedId].publishTime
             >= bets[last.bet].deadline - MAX_PRICE_AGE
\* A bet has just been settled, without update data, at the stored price,
\* which is exactly MAX_PRICE_AGE old.
C34_Witness ==
    /\ last.op = "resolveBet"
    /\ last.fee = 0
    /\ now - pythStore[bets[last.bet].priceFeedId].publishTime = MAX_PRICE_AGE

\* The indexer's name for a status of the engine.
IndexerStatus(st) ==
    CASE st = "Open" -> "PENDING"
      [] st = "Matched" -> "ACTIVE"
      [] st = "Resolved" -> "RESOLVED"
      [] st = "Cancelled" -> "CANCELLED"
      [] OTHER -> "NONE"
\* The event each operation is to emit.
EventOf(op) ==
    CASE op = "createBet" -> "BetCreated"
      [] op = "joinBet" -> "BetJoined"
      [] op = "resolveBet" -> "BetResolved"
      [] op = "cancelBet" -> "BetCancelled"
      [] OTHER -> "none"
\* The bets of the engine in one of the statuses.
BetsIn(sts) == {id \in Ids : Status(bets[id]) \in sts}

====
